---- MODULE Spec2Model ----
(***************************************************************************)
(* WAV File Volume Analyzer (src/script.py).                               *)
(*                                                                         *)
(* Python strings that the code inspects character by character (file      *)
(* names, speaker ids, categories) are sequences of one-character strings. *)
(* Strings the code only copies or compares whole (folder names, status,   *)
(* range texts) are TLA+ strings.  Decibel values are fixed-point numbers: *)
(* db_value in hundredths of a dB, round(db_value, 1) in tenths of a dB.   *)
(* Python dicts are ordered: a dict is a sequence of [key, val] items.     *)
(* The record dicts returned by analyze_wav_file are objects with          *)
(* identity: they live in heap and lists hold their ids.                   *)
(***************************************************************************)
EXTENDS Integers, Sequences, FiniteSets, TLC

VARIABLES
    fs,               \* the file system under root_path: [exists, entries]
    selected_folders, \* argument of scan_folders_from_path
    pc,               \* position of the program
    subdirs_to_scan,  \* scan local: folders still to process, in order
    folder_name,      \* scan local: folder being processed
    wav_files,        \* scan local: matching paths of the current folder
    idx,              \* scan local: number of files of wav_files analysed
    folder_results,   \* scan local: ids of the current folder's records
    all_results,      \* ordered dict folder name -> list of record ids
    heap,             \* record dicts by id
    extractions,      \* what the loudness extraction did, per analyze call
    messages,         \* st.error / st.warning calls, in order
    summary_df,       \* summary table of the last create_excel_report
    detail_df,        \* detail table of the last create_excel_report
    prev_report,      \* the two tables of the call before the last one
    report_calls,     \* number of create_excel_report calls so far
    before_report,    \* all_results and heap as the scan returned them
    filename,         \* argument of extract_info_from_filename
    info              \* its result

vars == <<fs, selected_folders, pc, subdirs_to_scan, folder_name, wav_files,
          idx, folder_results, all_results, heap, extractions, messages,
          summary_df, detail_df, prev_report, report_calls, before_report,
          filename, info>>

scanVars == <<fs, selected_folders, subdirs_to_scan, folder_name, wav_files,
              idx, folder_results, all_results, heap, extractions, messages,
              summary_df, detail_df, prev_report, report_calls, before_report>>

-----------------------------------------------------------------------------
(* Bounds *)

MaxFiles == 2      \* files in the whole tree under root_path
MaxReports == 2    \* create_excel_report calls on one scan result
MaxPieces == 5     \* pieces a file name of the classifier check is made of

-----------------------------------------------------------------------------
(* Python str / list helpers *)

Upper == <<"A","B","C","D","E","F","G","H","I","J","K","L","M",
           "N","O","P","Q","R","S","T","U","V","W","X","Y","Z">>
Lower == <<"a","b","c","d","e","f","g","h","i","j","k","l","m",
           "n","o","p","q","r","s","t","u","v","w","x","y","z">>

LowerChar(c) ==
    IF \E k \in 1..26 : Upper[k] = c
    THEN Lower[CHOOSE k \in 1..26 : Upper[k] = c]
    ELSE c

\* str.lower()
lower(s) == [k \in 1..Len(s) |-> LowerChar(s[k])]

\* str.endswith
endswith(s, p) ==
    Len(s) >= Len(p) /\ SubSeq(s, Len(s) - Len(p) + 1, Len(s)) = p

DotWav == <<".", "w", "a", "v">>
Soft == <<"s", "o", "f", "t">>
Comfortable == <<"c", "o", "m", "f", "o", "r", "t", "a", "b", "l", "e">>

\* str.find(p): where p first occurs in s, 0 when it does not
find(s, p) ==
    LET at == {k \in 1..(Len(s) - Len(p) + 1) :
                  \A j \in 1..Len(p) : s[k + j - 1] = p[j]}
    IN  IF at = {} THEN 0 ELSE CHOOSE k \in at : \A j \in at : k <= j

\* str.replace(old, ''): every non-overlapping occurrence, left to right
RECURSIVE replace_empty(_, _)
replace_empty(s, old) ==
    LET k == find(s, old)
    IN  IF k = 0 THEN s
        ELSE SubSeq(s, 1, k - 1)
             \o replace_empty(SubSeq(s, k + Len(old), Len(s)), old)

\* str.split(sep) for a one-character sep: always at least one token
RECURSIVE split(_, _)
split(s, sep) ==
    LET k == find(s, <<sep>>)
    IN  IF k = 0 THEN <<s>>
        ELSE <<SubSeq(s, 1, k - 1)>> \o split(SubSeq(s, k + 1, Len(s)), sep)

-----------------------------------------------------------------------------
(* extract_info_from_filename *)

CategoryNames == {Soft, Comfortable}

UnknownSpeaker == <<"U","n","k","n","o","w","n">>
UnknownCategory == <<"u","n","k","n","o","w","n">>

\* the for loop with break: the first part whose lower() is a category
RECURSIVE FirstCategory(_)
FirstCategory(parts) ==
    IF parts = <<>> THEN UnknownCategory
    ELSE IF lower(parts[1]) \in CategoryNames THEN lower(parts[1])
         ELSE FirstCategory(Tail(parts))

extract_info_from_filename(name) ==
    LET parts == split(replace_empty(name, DotWav), "_")
    IN  IF Len(parts) >= 3
        THEN <<parts[1], FirstCategory(parts)>>
        ELSE <<UnknownSpeaker, UnknownCategory>>

-----------------------------------------------------------------------------
(* Floats, rms_to_db, VOLUME_CATEGORIES, analyze_wav_file *)

\* A Python float: a finite value (val, in hundredths or tenths of a dB as
\* said where it is used) or -inf.
Fin(v) == [kind |-> "float", neginf |-> FALSE, val |-> v]
NegInf == [kind |-> "float", neginf |-> TRUE, val |-> 0]
\* A Python str stored where a number is expected
Str(t) == [kind |-> "str", text |-> t]

\* n <= x and x <= n for an int n and a float x, both in the same unit
IntLeFloat(n, x) == ~x.neginf /\ n <= x.val
FloatLeInt(x, n) == x.neginf \/ x.val <= n

\* 20 * math.log10(rms_value) in hundredths of a dB, for the RMS means
\* (in millionths) that the extraction is let to return
TwentyLog10(rms_value) ==
    CASE rms_value = 17701 -> -3504
      [] rms_value = 17865 -> -3496
      [] rms_value = 31623 -> -3000
      [] rms_value = 55976 -> -2504
      [] rms_value = 56494 -> -2496
      [] rms_value = 100000 -> -2000
      [] rms_value = 177011 -> -1504
      [] rms_value = 178649 -> -1496

rms_to_db(rms_value) ==
    IF rms_value = 0 THEN NegInf ELSE Fin(TwentyLog10(rms_value))

\* round(x, 1): hundredths to tenths, ties to even; -inf stays -inf
Round1(x) ==
    IF x.neginf THEN x
    ELSE LET q == x.val \div 10
             r == x.val % 10
         IN  Fin(IF r < 5 THEN q
                 ELSE IF r > 5 THEN q + 1
                 ELSE IF q % 2 = 0 THEN q ELSE q + 1)

VOLUME_CATEGORIES ==
    (Soft :> [rms_range |-> "-35dB to -25dB", min_db |-> -35, max_db |-> -25])
    @@ (Comfortable :>
          [rms_range |-> "-25dB to -15dB", min_db |-> -25, max_db |-> -15])

\* What librosa.load / librosa.feature.rms / np.mean did for one file:
\* raised, or produced rms_mean (millionths)
Raised == [ok |-> FALSE, rms_mean |-> 0]
Loaded(r) == [ok |-> TRUE, rms_mean |-> r]

\* the status decision of the try block, on the unrounded db_value
StatusOf(expected_category, db_value) ==
    IF expected_category \in DOMAIN VOLUME_CATEGORIES
    THEN LET category_info == VOLUME_CATEGORIES[expected_category]
         IN  IF /\ IntLeFloat(category_info.min_db * 100, db_value)
                /\ FloatLeInt(db_value, category_info.max_db * 100)
             THEN "Good" ELSE "Bad"
    ELSE "Bad"

DbRangeOf(expected_category) ==
    IF expected_category \in DOMAIN VOLUME_CATEGORIES
    THEN VOLUME_CATEGORIES[expected_category].rms_range
    ELSE "N/A"

\* A bug that leaves the defaults in the record of a failed file
ErrorRecordDefaults(name) ==
    [Speaker_ID |-> UnknownSpeaker, Filename |-> name,
     Category |-> UnknownCategory, Current_File_Db |-> Str("Error"),
     Db_range |-> "Error", Status |-> "Error"]

\* the except block
ErrorRecord(name) ==
    LET i == extract_info_from_filename(name)
    IN  [Speaker_ID |-> i[1], Filename |-> name, Category |-> i[2],
         Current_File_Db |-> Str("Error"), Db_range |-> "Error",
         Status |-> "Error"]

analyze_wav_file(file_path, name, extraction) ==
    IF extraction.ok
    THEN LET i == extract_info_from_filename(name)
             db_value == rms_to_db(extraction.rms_mean)
         IN  [Speaker_ID |-> i[1], Filename |-> name, Category |-> i[2],
              Current_File_Db |-> Round1(db_value),
              Db_range |-> DbRangeOf(i[2]),
              Status |-> StatusOf(i[2], db_value)]
    ELSE ErrorRecord(name)

-----------------------------------------------------------------------------
(* The file system and the walk *)

\* A directory: its files (names) and its subdirectories, in listing order
Dir(files, dirs) == [files |-> files, dirs |-> dirs]
EmptyDir == Dir(<<>>, <<>>)

\* os.path.join(root, file) and os.path.basename
join(root, file) == [dirs |-> root, file |-> file]
basename(path) == path.file

\* os.walk(top), top-down: one (root, files) pair per directory
RECURSIVE walk(_, _)
RECURSIVE walk_dirs(_, _)
walk(root, dir) == << [root |-> root, files |-> dir.files] >>
                   \o walk_dirs(root, dir.dirs)
walk_dirs(root, dirs) ==
    IF dirs = <<>> THEN <<>>
    ELSE walk(Append(root, dirs[1].name), dirs[1].dir)
         \o walk_dirs(root, Tail(dirs))

\* A bug that matches the extension case-sensitively
IsWavCaseSensitive(file) == endswith(file, DotWav)

\* file.lower().endswith('.wav')
IsWav(file) == endswith(lower(file), DotWav)

RECURSIVE MatchingIn(_, _)
MatchingIn(root, files) ==
    IF files = <<>> THEN <<>>
    ELSE (IF IsWav(files[1]) THEN <<join(root, files[1])>> ELSE <<>>)
         \o MatchingIn(root, Tail(files))

RECURSIVE FlattenWalk(_)
FlattenWalk(w) ==
    IF w = <<>> THEN <<>>
    ELSE MatchingIn(w[1].root, w[1].files) \o FlattenWalk(Tail(w))

\* the wav_files comprehension for one folder of the root
WavFilesOf(entry) == FlattenWalk(walk(<<entry.name>>, entry.dir))

\* A bug that drops the os.path.isdir filter
SubdirsUnfiltered(entries) == [k \in 1..Len(entries) |-> entries[k].name]

\* the subdirs comprehension: names of the entries that are directories
Subdirs(entries) ==
    LET IsDir(e) == e.isdir
        ds == SelectSeq(entries, IsDir)
    IN  [k \in 1..Len(ds) |-> ds[k].name]

\* "if selected_folders:" is false for None and for an empty list
Truthy(sel) == ~sel.none /\ sel.items # <<>>

\* A bug that ignores the selection
SubdirsToScanAll(subdirs, sel) == subdirs

SubdirsToScan(subdirs, sel) ==
    IF Truthy(sel)
    THEN LET In(d) == \E k \in 1..Len(sel.items) : sel.items[k] = d
         IN  SelectSeq(subdirs, In)
    ELSE subdirs

\* the entry of the root called d (os.walk of something that is not a
\* directory yields nothing)
EntryOf(entries, d) ==
    LET e == entries[CHOOSE k \in 1..Len(entries) : entries[k].name = d]
    IN  IF e.isdir THEN e ELSE [e EXCEPT !.dir = EmptyDir]

-----------------------------------------------------------------------------
(* create_excel_report *)

\* dict items and the two dict operations the code uses
Keys(d) == {d[k].key : k \in 1..Len(d)}
DictSet(d, key, val) ==
    IF key \in Keys(d)
    THEN [k \in 1..Len(d) |->
            IF d[k].key = key THEN [key |-> key, val |-> val] ELSE d[k]]
    ELSE Append(d, [key |-> key, val |-> val])

\* result[field] = value, on a record dict
SetField(r, field, value) ==
    [f \in DOMAIN r \cup {field} |-> IF f = field THEN value ELSE r[f]]
\* result.get(field, default)
GetField(r, field, default) == IF field \in DOMAIN r THEN r[field] ELSE default

\* A bug that counts every record that is not 'Bad'
GoodFilesNotBad(results, h) ==
    Cardinality({k \in 1..Len(results) : h[results[k]].Status # "Bad"})

\* len([r for r in results if r['Status'] == 'Good'])
GoodFiles(results, h) ==
    Cardinality({k \in 1..Len(results) : h[results[k]].Status = "Good"})

\* f"{(good_files/total_files)*100:.1f}%" if total_files > 0 else "0%":
\* the percentage in tenths, ties to even
SuccessRate(good_files, total_files) ==
    IF total_files > 0
    THEN LET q == (good_files * 1000) \div total_files
             r2 == 2 * ((good_files * 1000) % total_files)
         IN  [format |-> ".1f%",
              tenths |-> IF r2 < total_files THEN q
                         ELSE IF r2 > total_files THEN q + 1
                         ELSE IF q % 2 = 0 THEN q ELSE q + 1]
    ELSE [format |-> "0%", tenths |-> 0]

SummaryRow(name, results, h) ==
    LET total_files == Len(results)
        good_files == GoodFiles(results, h)
        bad_files == total_files - good_files
    IN  [Folder |-> name, Total_Files |-> total_files,
         Good_Files |-> good_files, Bad_Files |-> bad_files,
         Success_Rate |-> SuccessRate(good_files, total_files)]

SummaryData(results_data, h) ==
    [k \in 1..Len(results_data) |->
        SummaryRow(results_data[k].key, results_data[k].val, h)]

\* the (folder_name, result) pairs the second loop visits, in order
RECURSIVE DetailPairs(_)
DetailPairs(results_data) ==
    IF results_data = <<>> THEN <<>>
    ELSE [k \in 1..Len(results_data[1].val) |->
            [folder |-> results_data[1].key, id |-> results_data[1].val[k]]]
         \o DetailPairs(Tail(results_data))

\* result['Folder'] = folder_name for every pair, in order
RECURSIVE TagFolders(_, _)
TagFolders(h, pairs) ==
    IF pairs = <<>> THEN h
    ELSE TagFolders(
            [h EXCEPT ![pairs[1].id] = SetField(@, "Folder", pairs[1].folder)],
            Tail(pairs))

\* A bug that numbers the rows from 0 (enumerate without its start)
DetailRowFromZero(i, result) ==
    [Sl_no |-> i - 1,
     Folder |-> GetField(result, "Folder", "N/A"),
     speaker_ID |-> result.Speaker_ID,
     Filename |-> result.Filename,
     category |-> result.Category,
     Current_File_Db |-> result.Current_File_Db,
     Db_range |-> result.Db_range,
     Status |-> result.Status]

\* the row of df_data for the i-th element of all_details_list
DetailRow(i, result) ==
    [Sl_no |-> i,
     Folder |-> GetField(result, "Folder", "N/A"),
     speaker_ID |-> result.Speaker_ID,
     Filename |-> result.Filename,
     category |-> result.Category,
     Current_File_Db |-> result.Current_File_Db,
     Db_range |-> result.Db_range,
     Status |-> result.Status]

\* A bug that appends a copy of each record before it is tagged
AllDetailsListUntagged(h, pairs) == [k \in 1..Len(pairs) |-> h[pairs[k].id]]

\* all_details_list after the second loop: it holds the record dicts
\* themselves, so each element shows the tags the whole loop has set
AllDetailsList(h, pairs) ==
    [k \in 1..Len(pairs) |-> TagFolders(h, pairs)[pairs[k].id]]

\* df_data: enumerate(all_details_list, 1)
DfData(all_details_list) ==
    [k \in 1..Len(all_details_list) |-> DetailRow(k, all_details_list[k])]

-----------------------------------------------------------------------------
(* Inputs *)

\* file names found in the scanned tree
NameSoft == <<"a","_","b","_","s","o","f","t",".","w","a","v">>
NameComfortable ==
    <<"c","_","C","o","m","f","o","r","t","a","b","l","e","_","1",".","w","a","v">>
NameShort == <<"A","_","b",".","W","A","V">>
NameText == <<"a","_","s","o","f","t","_","b",".","t","x","t">>
ScanNames == {NameSoft, NameComfortable, NameShort, NameText}

\* what the extraction does for a file
Extractions == {Raised, Loaded(31623), Loaded(56494)}

\* listings of root_path ("g" is a plain file, the others directories)
Listings == {<<>>, <<"g">>, <<"f1", "f2">>, <<"f2", "g", "f1">>,
             <<"g", "f2">>}

None == [none |-> TRUE, items |-> <<>>]
List(items) == [none |-> FALSE, items |-> items]
Selections == {None, List(<<>>), List(<<"f2", "g">>), List(<<"f2", "f1">>)}

SeqsUpTo(S, n) == UNION {[1..m -> S] : m \in 0..n}
Has(listing, d) == \E k \in 1..Len(listing) : listing[k] = d

\* the tree: "f1" holds top and, in its subdirectory "sub", nested;
\* "f2" holds rest
Entries(listing, top, nested, rest) ==
    [k \in 1..Len(listing) |->
        CASE listing[k] = "f1" ->
               [name |-> "f1", isdir |-> TRUE,
                dir |-> Dir(top, <<[name |-> "sub", dir |-> Dir(nested, <<>>)]>>)]
          [] listing[k] = "f2" ->
               [name |-> "f2", isdir |-> TRUE, dir |-> Dir(rest, <<>>)]
          [] OTHER ->
               [name |-> listing[k], isdir |-> FALSE, dir |-> EmptyDir]]

NoReport == [summary |-> <<>>, detail |-> <<>>]
NoSnapshot == [all_results |-> <<>>, heap |-> <<>>]
NoInfo == << <<>>, <<>> >>

InitLocals ==
    /\ subdirs_to_scan = <<>>
    /\ folder_name = ""
    /\ wav_files = <<>>
    /\ idx = 0
    /\ folder_results = <<>>
    /\ all_results = <<>>
    /\ heap = <<>>
    /\ extractions = <<>>
    /\ messages = <<>>
    /\ summary_df = <<>>
    /\ detail_df = <<>>
    /\ prev_report = NoReport
    /\ report_calls = 0
    /\ before_report = NoSnapshot

Init ==
    /\ \/ fs = [exists |-> FALSE, entries |-> <<>>]
       \/ \E listing \in Listings, all \in SeqsUpTo(ScanNames, MaxFiles) :
            \E i \in 0..Len(all), j \in 0..Len(all) :
                /\ i <= j
                /\ ~Has(listing, "f1") => j = 0
                /\ ~Has(listing, "f2") => j = Len(all)
                /\ fs = [exists |-> TRUE,
                         entries |-> Entries(listing, SubSeq(all, 1, i),
                                             SubSeq(all, i + 1, j),
                                             SubSeq(all, j + 1, Len(all)))]
    /\ selected_folders \in Selections
    /\ pc = "start"
    /\ InitLocals
    /\ filename = <<>>
    /\ info = NoInfo

-----------------------------------------------------------------------------
(* scan_folders_from_path *)

Error(what) == [level |-> "error", what |-> what]
Warning(what) == [level |-> "warning", what |-> what]

\* lines 84-99: the two terminal checks and the choice of folders
ScanStart ==
    /\ pc = "start"
    /\ all_results' = <<>>
    /\ IF ~fs.exists
       THEN /\ messages' = Append(messages, Error("Path does not exist"))
            /\ pc' = "returned"
            /\ before_report' = [all_results |-> <<>>, heap |-> heap]
            /\ UNCHANGED subdirs_to_scan
       ELSE IF Subdirs(fs.entries) = <<>>
       THEN /\ messages' = Append(messages, Error("No folders found"))
            /\ pc' = "returned"
            /\ before_report' = [all_results |-> <<>>, heap |-> heap]
            /\ UNCHANGED subdirs_to_scan
       ELSE /\ subdirs_to_scan' =
                   SubdirsToScan(Subdirs(fs.entries), selected_folders)
            /\ pc' = "folders"
            /\ UNCHANGED <<messages, before_report>>
    /\ UNCHANGED <<fs, selected_folders, folder_name, wav_files, idx,
                   folder_results, heap, extractions, summary_df, detail_df,
                   prev_report, report_calls, filename, info>>

\* lines 101-107 and 117-118: the next folder, its wav_files
BeginFolder ==
    /\ pc = "folders"
    /\ subdirs_to_scan # <<>>
    /\ LET d == Head(subdirs_to_scan)
           files == WavFilesOf(EntryOf(fs.entries, d))
       IN  /\ folder_name' = d
           /\ wav_files' = files
           /\ subdirs_to_scan' = Tail(subdirs_to_scan)
           /\ idx' = 0
           /\ IF files # <<>>
              THEN /\ folder_results' = <<>>
                   /\ pc' = "files"
                   /\ UNCHANGED messages
              ELSE /\ messages' = Append(messages, Warning("No WAV files found"))
                   /\ pc' = "folders"
                   /\ UNCHANGED folder_results
    /\ UNCHANGED <<fs, selected_folders, all_results, heap, extractions,
                   summary_df, detail_df, prev_report, report_calls,
                   before_report, filename, info>>

\* lines 109-113: one iteration of the file loop
AnalyzeFile ==
    /\ pc = "files"
    /\ idx < Len(wav_files)
    /\ \E extraction \in Extractions :
        LET wav_file == wav_files[idx + 1]
            result == analyze_wav_file(wav_file, basename(wav_file), extraction)
        IN  /\ heap' = Append(heap, result)
            /\ folder_results' = Append(folder_results, Len(heap) + 1)
            /\ extractions' =
                   Append(extractions, [path |-> wav_file, did |-> extraction])
            /\ messages' = IF extraction.ok THEN messages
                           ELSE Append(messages, Error("Error processing"))
    /\ idx' = idx + 1
    /\ UNCHANGED <<fs, selected_folders, pc, subdirs_to_scan, folder_name,
                   wav_files, all_results, summary_df, detail_df, prev_report,
                   report_calls, before_report, filename, info>>

\* lines 115-116: the folder's list goes into all_results
EndFolder ==
    /\ pc = "files"
    /\ idx = Len(wav_files)
    /\ all_results' = DictSet(all_results, folder_name, folder_results)
    /\ pc' = "folders"
    /\ UNCHANGED <<fs, selected_folders, subdirs_to_scan, folder_name,
                   wav_files, idx, folder_results, heap, extractions, messages,
                   summary_df, detail_df, prev_report, report_calls,
                   before_report, filename, info>>

\* line 120
ScanReturn ==
    /\ pc = "folders"
    /\ subdirs_to_scan = <<>>
    /\ pc' = "returned"
    /\ before_report' = [all_results |-> all_results, heap |-> heap]
    /\ UNCHANGED <<fs, selected_folders, subdirs_to_scan, folder_name,
                   wav_files, idx, folder_results, all_results, heap,
                   extractions, messages, summary_df, detail_df, prev_report,
                   report_calls, filename, info>>

\* main calls create_excel_report only on a non-empty result ("if results:")
CreateExcelReport ==
    /\ pc \in {"returned", "reported"}
    /\ all_results # <<>>
    /\ report_calls < MaxReports
    /\ LET pairs == DetailPairs(all_results)
       IN  /\ summary_df' = SummaryData(all_results, heap)
           /\ heap' = TagFolders(heap, pairs)
           /\ detail_df' = IF AllDetailsList(heap, pairs) # <<>>
                           THEN DfData(AllDetailsList(heap, pairs))
                           ELSE <<>>
    /\ prev_report' = [summary |-> summary_df, detail |-> detail_df]
    /\ report_calls' = report_calls + 1
    /\ pc' = "reported"
    /\ UNCHANGED <<fs, selected_folders, subdirs_to_scan, folder_name,
                   wav_files, idx, folder_results, all_results, extractions,
                   messages, before_report, filename, info>>

Next ==
    \/ ScanStart
    \/ BeginFolder
    \/ AnalyzeFile
    \/ EndFolder
    \/ ScanReturn
    \/ CreateExcelReport

Spec == Init /\ [][Next]_vars

-----------------------------------------------------------------------------
(* extract_info_from_filename on its own *)

Pieces == {<<"a">>, <<"B">>, <<"_">>, DotWav, <<".", "W", "A", "V">>,
           Soft, <<"C","o","m","f","o","r","t","a","b","l","e">>}

RECURSIVE Concat(_)
Concat(ps) == IF ps = <<>> THEN <<>> ELSE ps[1] \o Concat(Tail(ps))

InitName ==
    /\ fs = [exists |-> FALSE, entries |-> <<>>]
    /\ selected_folders = None
    /\ pc = "name"
    /\ InitLocals
    /\ \E ps \in SeqsUpTo(Pieces, MaxPieces) : filename = Concat(ps)
    /\ info = NoInfo

ExtractInfo ==
    /\ pc = "name"
    /\ info' = extract_info_from_filename(filename)
    /\ pc' = "named"
    /\ UNCHANGED <<scanVars, filename>>

NextName == ExtractInfo

SpecName == InitName /\ [][NextName]_vars

-----------------------------------------------------------------------------
(* analyze_wav_file on its own *)

NameLoud == <<"x","_","y","_","l","o","u","d","_","z",".","w","a","v">>
NameUpper == <<"S","_","S","O","F","T","_","1",".","W","A","V">>
NameBoth == <<"1","_","c","o","m","f","o","r","t","a","b","l","e","_",
              "s","o","f","t",".","w","a","v">>
NameTwo == <<"a","_","b",".","w","a","v">>
NameInner == <<"s",".","w","a","v","_","1","_","s","o","f","t",".","w","a","v">>
NameEmpty == <<"_","_","C","O","M","F","O","R","T","A","B","L","E">>
AnalyzeNames == ScanNames \cup {NameLoud, NameUpper, NameBoth, NameTwo,
                                NameInner, NameEmpty}

RmsMeans == {0, 17701, 17865, 31623, 55976, 56494, 100000, 177011, 178649}
AllExtractions == {Raised} \cup {Loaded(r) : r \in RmsMeans}

InitAnalyze ==
    /\ fs = [exists |-> FALSE, entries |-> <<>>]
    /\ selected_folders = None
    /\ pc = "analyze"
    /\ InitLocals
    /\ filename \in AnalyzeNames
    /\ info = NoInfo

Analyze ==
    /\ pc = "analyze"
    /\ \E extraction \in AllExtractions :
        LET path == join(<<"f1">>, filename)
        IN  /\ heap' = <<analyze_wav_file(path, basename(path), extraction)>>
            /\ extractions' = <<[path |-> path, did |-> extraction]>>
            /\ messages' = IF extraction.ok THEN messages
                           ELSE Append(messages, Error("Error processing"))
    /\ pc' = "analyzed"
    /\ UNCHANGED <<fs, selected_folders, subdirs_to_scan, folder_name,
                   wav_files, idx, folder_results, all_results, summary_df,
                   detail_df, prev_report, report_calls, before_report,
                   filename, info>>

NextAnalyze == Analyze

SpecAnalyze == InitAnalyze /\ [][NextAnalyze]_vars

-----------------------------------------------------------------------------
(* What the claims speak of, stated without the operators of the code *)

Returned == pc \in {"returned", "reported"}

\* a name that ends in ".wav" in any mix of cases
EndsInWavAnyCase(name) ==
    /\ Len(name) >= 4
    /\ name[Len(name) - 3] = "."
    /\ name[Len(name) - 2] \in {"w", "W"}
    /\ name[Len(name) - 1] \in {"a", "A"}
    /\ name[Len(name)] \in {"v", "V"}

\* every file below a directory, its own files first, then each
\* subdirectory's in turn
RECURSIVE FilesBelow(_)
RECURSIVE FilesBelowAll(_)
FilesBelow(dir) == dir.files \o FilesBelowAll(dir.dirs)
FilesBelowAll(dirs) ==
    IF dirs = <<>> THEN <<>>
    ELSE FilesBelow(dirs[1].dir) \o FilesBelowAll(Tail(dirs))

MatchingNames(dir) == SelectSeq(FilesBelow(dir), EndsInWavAnyCase)

\* the immediate subdirectories of the root, and those the scan is to cover
RootDirs == {fs.entries[k].name : k \in {j \in 1..Len(fs.entries) : fs.entries[j].isdir}}
DirOf(d) == fs.entries[CHOOSE k \in 1..Len(fs.entries) : fs.entries[k].name = d].dir
SelectedSet == {selected_folders.items[k] : k \in 1..Len(selected_folders.items)}
Covered == IF SelectedSet = {} THEN RootDirs ELSE RootDirs \cap SelectedSet

TerminalFailure ==
    \E k \in 1..Len(messages) :
        /\ messages[k].level = "error"
        /\ messages[k].what \in {"Path does not exist", "No folders found"}

RECURSIVE SumLen(_)
SumLen(items) ==
    IF items = <<>> THEN 0 ELSE Len(items[1].val) + SumLen(Tail(items))

\* number of detail rows that come before the rows of the a-th folder
Offset(a) == SumLen(SubSeq(all_results, 1, a - 1))

\* the classifier that removes only a trailing, exactly cased ".wav"
StripSuffix(name) ==
    IF /\ Len(name) >= 4
       /\ <<name[Len(name) - 3], name[Len(name) - 2], name[Len(name) - 1],
            name[Len(name)]>> = <<".", "w", "a", "v">>
    THEN SubSeq(name, 1, Len(name) - 4)
    ELSE name

RECURSIVE FirstKnownToken(_)
FirstKnownToken(tokens) ==
    IF tokens = <<>> THEN <<"u","n","k","n","o","w","n">>
    ELSE IF lower(tokens[1]) = <<"s","o","f","t">>
              \/ lower(tokens[1]) = <<"c","o","m","f","o","r","t","a","b","l","e">>
         THEN lower(tokens[1])
         ELSE FirstKnownToken(Tail(tokens))

ReferenceClassifier(name) ==
    LET tokens == split(StripSuffix(name), "_")
    IN  IF Len(tokens) < 3
        THEN <<<<"U","n","k","n","o","w","n">>, <<"u","n","k","n","o","w","n">>>>
        ELSE <<tokens[1], FirstKnownToken(tokens)>>

IsErrorText(x) == x.kind = "str" /\ x.text = "Error"

-----------------------------------------------------------------------------
(* Claims *)

\* C1: every record of a file whose extraction succeeded has Status Good
\* exactly when its category is soft or comfortable and the stored, rounded
\* Current_File_Db lies in the category's band, bounds included; otherwise
\* its Status is Bad.
C1_StatusFollowsStoredDb ==
    \A k \in 1..Len(heap) :
        extractions[k].did.ok =>
            LET r == heap[k]
                x == r.Current_File_Db
                inBand ==
                    \/ r.Category = Soft /\ ~x.neginf
                         /\ -350 <= x.val /\ x.val <= -250
                    \/ r.Category = Comfortable /\ ~x.neginf
                         /\ -250 <= x.val /\ x.val <= -150
            IN  r.Status = IF inBand THEN "Good" ELSE "Bad"

\* C2: extract_info_from_filename returns what the reference classifier
\* (only a trailing, exactly cased ".wav" removed) returns.
C2_MatchesReferenceClassifier ==
    pc = "named" => info = ReferenceClassifier(filename)

\* C3: once a folder's list is in the results it holds exactly one record
\* per matching file of the folder, in walk order, failed or not; and when
\* the scan has returned every covered folder with matching files has
\* its list.
C3_OneRecordPerMatchingFile ==
    /\ \A a \in 1..Len(all_results) :
          LET names == MatchingNames(DirOf(all_results[a].key))
              ids == all_results[a].val
          IN  /\ Len(ids) = Len(names)
              /\ \A b \in 1..Len(ids) : heap[ids[b]].Filename = names[b]
              /\ \A b, c \in 1..Len(ids) : b # c => ids[b] # ids[c]
    /\ (Returned /\ ~TerminalFailure) =>
          \A d \in Covered :
              MatchingNames(DirOf(d)) # <<>> => d \in Keys(all_results)

C3_Witness ==
    /\ Returned
    /\ \E a \in 1..Len(all_results) :
          LET ids == all_results[a].val
          IN  /\ Len(ids) >= 2
              /\ heap[ids[1]].Status = "Error"
              /\ heap[ids[2]].Status # "Error"

\* C4: a failed extraction gives a record with Status, Current_File_Db and
\* Db_range all 'Error' and the speaker and category of the file name; only
\* a failed extraction gives Status 'Error'; and the scan goes on: when it
\* has returned without a terminal failure it has analysed every matching
\* file of every covered folder.
C4_FailureBecomesErrorRecord ==
    /\ Len(heap) = Len(extractions)
    /\ \A k \in 1..Len(heap) :
          LET r == heap[k]
              expected == extract_info_from_filename(basename(extractions[k].path))
          IN  /\ ~extractions[k].did.ok =>
                    /\ r.Status = "Error"
                    /\ IsErrorText(r.Current_File_Db)
                    /\ r.Db_range = "Error"
                    /\ r.Speaker_ID = expected[1]
                    /\ r.Category = expected[2]
              /\ r.Status = "Error" => ~extractions[k].did.ok
    /\ (Returned /\ ~TerminalFailure) =>
          Len(extractions) =
              SumLen([k \in 1..Len(all_results) |->
                        [val |-> MatchingNames(DirOf(all_results[k].key))]])

C4_Witness ==
    /\ Returned
    /\ \E k \in 1..Len(heap) :
          /\ ~extractions[k].did.ok
          /\ heap[k].Speaker_ID # UnknownSpeaker
          /\ heap[k].Category = Soft
          /\ k < Len(heap)
          /\ extractions[k + 1].did.ok

\* C5: a scan of a root that does not exist, or that has no immediate
\* subdirectory, ends in a terminal failure with no file evaluated and an
\* empty result.
C5_TerminalFailureReturnsNothing ==
    (pc # "start" /\ (~fs.exists \/ RootDirs = {})) =>
        /\ Returned
        /\ TerminalFailure
        /\ all_results = <<>>
        /\ extractions = <<>>
        /\ heap = <<>>

C5_Witness ==
    /\ Returned
    /\ fs.exists
    /\ fs.entries # <<>>
    /\ RootDirs = {}
    /\ TerminalFailure

\* C6: when the scan has returned, the keys of the result are exactly the
\* covered folders (immediate subdirectories, in the selection when it is
\* not empty) that have a matching file, each once, and no list is empty.
C6_KeysAreCoveredFoldersWithFiles ==
    /\ Returned =>
          Keys(all_results) =
              IF fs.exists
              THEN {d \in Covered : MatchingNames(DirOf(d)) # <<>>}
              ELSE {}
    /\ Cardinality(Keys(all_results)) = Len(all_results)
    /\ \A a \in 1..Len(all_results) : all_results[a].val # <<>>

C6_Witness ==
    /\ Returned
    /\ all_results # <<>>
    /\ SelectedSet # {}
    /\ \E d \in Covered : MatchingNames(DirOf(d)) = <<>> /\ FilesBelow(DirOf(d)) # <<>>

\* C7: after create_excel_report the summary has one row per folder of the
\* results, in order, with total_files the length of the folder's list,
\* good_files the number of 'Good' records and bad_files the number of
\* 'Bad' and 'Error' records together, so good_files + bad_files =
\* total_files.
C7_SummaryCounts ==
    report_calls >= 1 =>
        /\ Len(summary_df) = Len(all_results)
        /\ \A a \in 1..Len(all_results) :
              LET ids == all_results[a].val
                  row == summary_df[a]
                  With(S) == Cardinality({b \in 1..Len(ids) : heap[ids[b]].Status \in S})
              IN  /\ row.Folder = all_results[a].key
                  /\ row.Total_Files = Len(ids)
                  /\ row.Good_Files = With({"Good"})
                  /\ row.Bad_Files = With({"Bad", "Error"})
                  /\ row.Good_Files + row.Bad_Files = row.Total_Files

C7_Witness ==
    /\ report_calls >= 1
    /\ \E a \in 1..Len(all_results) :
          LET ids == all_results[a].val
          IN  /\ \E b \in 1..Len(ids) : heap[ids[b]].Status = "Error"
              /\ \E b \in 1..Len(ids) : heap[ids[b]].Status = "Good"
              /\ summary_df[a].Bad_Files = 1
              /\ summary_df[a].Good_Files = 1

\* C8: after create_excel_report the detail table has one row per record
\* of the results, folder by folder and in list order within a folder; row
\* k has Sl.no k, the fields of its record and the name of the folder
\* whose list the record is in.
C8_DetailRows ==
    report_calls >= 1 =>
        /\ Len(detail_df) = SumLen(all_results)
        /\ \A a \in 1..Len(all_results) :
              \A b \in 1..Len(all_results[a].val) :
                  LET k == Offset(a) + b
                      r == before_report.heap[all_results[a].val[b]]
                      row == detail_df[k]
                  IN  /\ row.Sl_no = k
                      /\ row.Folder = all_results[a].key
                      /\ row.speaker_ID = r.Speaker_ID
                      /\ row.Filename = r.Filename
                      /\ row.category = r.Category
                      /\ row.Current_File_Db = r.Current_File_Db
                      /\ row.Db_range = r.Db_range
                      /\ row.Status = r.Status

C8_Witness ==
    /\ report_calls >= 1
    /\ Len(all_results) = 2
    /\ Len(detail_df) = 2
    /\ detail_df[1].Folder # detail_df[2].Folder
    /\ detail_df[2].Sl_no = 2

\* C9: create_excel_report leaves the results as the scan returned them:
\* the mapping, every list and every record dict, fields and values.
C9_ReportLeavesResultsUnchanged ==
    report_calls >= 1 =>
        /\ all_results = before_report.all_results
        /\ Len(heap) = Len(before_report.heap)
        /\ \A k \in 1..Len(heap) :
              /\ DOMAIN heap[k] = DOMAIN before_report.heap[k]
              /\ \A f \in DOMAIN before_report.heap[k] :
                    heap[k][f] = before_report.heap[k][f]

\* C10: a call of create_excel_report that follows another one on the same
\* results yields the same summary table and the same detail table.
C10_ReportIsRepeatable ==
    report_calls >= 2 =>
        /\ summary_df = prev_report.summary
        /\ detail_df = prev_report.detail

C10_Witness ==
    /\ report_calls >= 2
    /\ Len(detail_df) >= 2
    /\ \E k \in 1..Len(heap) : heap[k].Status = "Error"

====
